---------------------------- MODULE Spec2Model ----------------------------
(***************************************************************************)
(* Model of src/app.js: the parameter store (ParameterManager), the page   *)
(* coordinator (PageManager) and the page components, of which the         *)
(* performance page owns a periodic timer and a rolling sample buffer.     *)
(*                                                                         *)
(* Every event handler of the program runs to completion before the next   *)
(* is dispatched, so each handler is one action.  A handler that raises    *)
(* stops where the exception is thrown: what it assigned before stays      *)
(* assigned, what follows the throw is not executed.                       *)
(***************************************************************************)
EXTENDS Integers, Sequences, FiniteSets, TLC

VARIABLES
    parameters,       \* ParameterManager.parameters: key -> value, Undefined = no such property
    subscribers,      \* ParameterManager.subscribers: key or "*" -> sequence of callbacks
    durable,          \* localStorage item 'ntn-satellite-params'
    urlQuery,         \* window.location.search: key -> value, Undefined = key absent
    inputValue,       \* value of each form control of the parameter panel
    loaded,           \* the window 'load' event of this document has been handled
    currentPage,      \* PageManager.currentPage
    navButtons,       \* data-page values for which the document holds an element
    containers,       \* ids for which the document holds a page container
    navActive,        \* nav buttons carrying the class 'active'
    pageActive,       \* page containers carrying the class 'active'
    entered,          \* pages whose onPageEnter ran more recently than their onPageExit
    metricsInterval,  \* PerformanceMetrics.metricsInterval, 0 = undefined
    liveTimers,       \* ids of the intervals that are set and not cleared
    nextTimerId,      \* the id the next setInterval returns
    performanceData,  \* PerformanceMetrics.performanceData (timestamps of the samples)
    clock,            \* number of samples taken so far (the timestamp source)
    leaked,           \* an onPageEnter of the performance page followed another with no exit between
    lastOp,           \* the handler that ran last: name, arguments, whether it raised
    log,              \* callbacks and hooks the last handler invoked, in order
    opened,           \* the window.open call of the last handler: path and query
    observed,         \* what each hook of the last switchPage saw of the coordinator
    chartLine         \* the samples the line on the performance chart joins

vars == <<parameters, subscribers, durable, urlQuery, inputValue, loaded,
          currentPage, navButtons, containers, navActive, pageActive, entered,
          metricsInterval, liveTimers, nextTimerId, performanceData, clock,
          leaked, lastOp, log, opened, observed, chartLine>>

storeVars == <<parameters, subscribers, durable, urlQuery, inputValue, loaded>>
pageVars  == <<currentPage, navButtons, containers, navActive, pageActive, entered>>
timerVars == <<metricsInterval, liveTimers, nextTimerId, performanceData, clock,
               leaked, chartLine>>

---------------------------------------------------------------------------
(* The document the script runs in.                                        *)

Undefined == "<undefined>"

\* Form controls of the parameter panel; their name/id are the parameter keys.
ControlKeys == {"num-satellites", "frequency"}

\* Keys handed to the store: the controls, the id of a page container that is
\* no form control, a key no element carries, and the wildcard itself.
Keys == ControlKeys \cup {"overview", "detail-type", "*"}

Values == {"", "2", "9"}

\* The value attribute each control carries in the markup.
DefaultValue(k) == IF k = "num-satellites" THEN "2" ELSE ""

\* Pages PageManager.initializePages registers, in registration order.
RegisteredPages == <<"overview", "satellite-config", "trajectory", "coverage", "performance">>

Registered == {RegisteredPages[i] : i \in 1..Len(RegisteredPages)}

\* A page name the markup may carry although no page is registered under it
\* (class Monitoring is defined and never registered), and one it never carries.
UnregisteredPages == {"monitoring", "nowhere"}

PageNames == Registered \cup UnregisteredPages

CanvasIds == {"coverage-canvas", "performance-chart", "trajectory-canvas"}

\* document.getElementById(key) || document.querySelector('[name="key"]')
HasElement(key) == key \in ControlKeys \/ key \in containers \/ key \in CanvasIds

---------------------------------------------------------------------------
(* Conversions.                                                            *)

NoItem == [kind |-> "null", members |-> {}]

\* An item some other writer of the origin's localStorage left under the
\* key, which is not JSON text.
Malformed == [kind |-> "malformed", members |-> {}]

\* JSON.stringify(object): one member per own property; a property whose
\* value is undefined is left out.
Stringify(obj) ==
    [kind |-> "json",
     members |-> {<<k, obj[k]>> : k \in {x \in DOMAIN obj : obj[x] # Undefined}}]

\* Object.keys(JSON.parse(text))
ParsedKeys(text) == {m[1] : m \in text.members}

\* JSON.parse(text)[key]
ParsedValue(text, key) ==
    IF key \in ParsedKeys(text)
    THEN (CHOOSE m \in text.members : m[1] = key)[2]
    ELSE Undefined

\* JavaScript truthiness of a string or undefined.
Truthy(v) == v # Undefined /\ v # ""

\* parseInt(v) for the values of the model; NaN is IsNumeric(v) = FALSE.
IsNumeric(v) == v \in {"2", "9"}

ParseInt(v) == IF v = "2" THEN 2 ELSE IF v = "9" THEN 9 ELSE 0

\* parseInt(params['num-satellites']) || 4
NumSats(params) ==
    LET v == params["num-satellites"] IN
    IF IsNumeric(v) /\ ParseInt(v) # 0 THEN ParseInt(v) ELSE 4

\* Length of the positions array of CoverageAnalysis.drawCoverageMap.
NumPositions == 4

\* maxDataPoints of PerformanceMetrics.
MaxDataPoints == 60

NoSnapshot == [k \in Keys |-> Undefined]

NoOp == [op |-> "construct", key |-> Undefined, value |-> Undefined, raised |-> FALSE]

Op(name, k, v, r) == [op |-> name, key |-> k, value |-> v, raised |-> r]


Call(c, m, k, n, o, snap) ==
    [cb |-> c, mode |-> m, key |-> k, new |-> n, old |-> o, snapshot |-> snap]

\* The keys a detail query can carry: those of the mapping and, from the
\* global openDetailPage, 'detail-id'.
DetailKeys == Keys \cup {"detail-id"}

\* The path the global openDetailPage opens.
DetailPath == "pages/detailed-analysis.html"

\* The data-url values of the navigation buttons that carry one.
DetailUrls == {"pages/satellite-detail.html"}

\* Arguments of the global openDetailPage: id may be left out (Undefined) or
\* be falsy ("" here, as 0 is).
DetailTypes == {"satellite"}
DetailIds == {Undefined, "", "1"}

\* No window.open call.
NotOpened == [path |-> Undefined, query |-> [k \in DetailKeys |-> Undefined]]

---------------------------------------------------------------------------
(* Bounds of the model.                                                    *)

\* Keys a query string handed to a fresh document carries at most.
MaxQueryKeys == 1

\* Callbacks registered through subscribe besides the pages' own.
MaxSubscriptions == 3

\* Timer ids setInterval hands out.
MaxTimerIds == 3

\* Samples the timer takes: more than the buffer holds.
MaxTicks == 62

\* Samples taken while pages are switched.
MaxPageTicks == 2

TestCallbacks == {"cb1", "cb2"}

QueryStrings ==
    {q \in [Keys -> Values \cup {Undefined}] :
        /\ q["*"] = Undefined
        /\ Cardinality({k \in Keys : q[k] # Undefined}) <= MaxQueryKeys}

---------------------------------------------------------------------------
(* ParameterManager.                                                       *)

\* CoverageAnalysis.onParametersChanged -> drawCoverageMap: with the canvas in
\* the document the loop reads positions[i].x for i < numSats, and positions
\* has NumPositions entries: positions[NumPositions] is undefined and reading
\* .x of it raises a TypeError.  No other page callback raises.
drawCoverageMapRaises(params) ==
    "coverage-canvas" \in CanvasIds /\ NumSats(params) > NumPositions

CallbackRaises(cb, params) ==
    cb = "coverage" /\ drawCoverageMapRaises(params)

\* getAllParameters(): a copy of the mapping.
getAllParameters(params) == [k \in Keys |-> params[k]]

\* getAllParameters() handing out this.parameters itself.
snapshotWriteShared(params, k, v) == [params EXCEPT ![k] = v]

\* The mapping of the store after a holder of getAllParameters()'s result
\* assigned result[k] = v (or deleted result[k], v = Undefined): the result
\* is a new object literal { ...this.parameters }, the write stays in it.
snapshotWrite(params, k, v) == params

\* A test callback that assigns to the snapshot it is handed:
\* snapshot[ScribbleKey] = ScribbleValue.
Scribbles(cb) == cb = "cb2"
ScribbleKey == "overview"
ScribbleValue == "scribbled"

\* The mapping of the store after the first n "*" callbacks ran.
RECURSIVE handlersLeave(_, _, _)
handlersLeave(subs, params, n) ==
    IF n = 0 THEN params
    ELSE LET before == handlersLeave(subs, params, n - 1) IN
         IF Scribbles(subs["*"][n])
         THEN snapshotWrite(before, ScribbleKey, ScribbleValue)
         ELSE before

\* notifySubscribers taking one snapshot before the loop and handing the
\* same object to every "*" callback.
wildcardSnapshotHoisted(subs, params, i) ==
    IF \E j \in 1..(i - 1) : Scribbles(subs["*"][j])
    THEN [getAllParameters(params) EXCEPT ![ScribbleKey] = ScribbleValue]
    ELSE getAllParameters(params)

\* The snapshot the i-th "*" callback is handed: getAllParameters() is
\* evaluated inside the forEach, once per callback.
wildcardSnapshot(subs, params, i) ==
    getAllParameters(handlersLeave(subs, params, i - 1))

\* notifySubscribers(key, newValue, oldValue): the callbacks invoked, in
\* order, up to and including the first that raises.
notifySubscribers(subs, params, key, new, old) ==
    LET specific == [i \in 1..Len(subs[key]) |->
                        Call(subs[key][i], "key", key, new, old, NoSnapshot)]
        wildcard == [i \in 1..Len(subs["*"]) |->
                        Call(subs["*"][i], "*", key, Undefined, Undefined,
                             wildcardSnapshot(subs, params, i))]
        all == specific \o wildcard
        bad == {i \in 1..Len(all) : CallbackRaises(all[i].cb, params)}
        stop == IF bad = {} THEN 0 ELSE CHOOSE i \in bad : \A j \in bad : i <= j
    IN  [calls |-> IF stop = 0 THEN all ELSE SubSeq(all, 1, stop),
         raised |-> stop # 0]

\* updateURLParams(): every own key of the mapping is set when its value is
\* truthy and deleted otherwise; other query keys are kept.
updateURLParams(params, query) ==
    [k \in Keys |->
        IF params[k] = Undefined THEN query[k]
        ELSE IF Truthy(params[k]) THEN params[k] ELSE Undefined]

\* loadFromURLParams() making the mapping out of the query's pairs alone.
loadFromURLParamsReplace(params, query) ==
    [k \in Keys |-> IF HasElement(k) THEN query[k] ELSE Undefined]

\* loadFromURLParams(): each query key for which an element is found
\* overwrites the mapping.
loadFromURLParams(params, query) ==
    [k \in Keys |->
        IF query[k] # Undefined /\ HasElement(k) THEN query[k] ELSE params[k]]

\* loadFromLocalStorage(): JSON.parse(saved) is called outside any try
\* block and throws a SyntaxError on text that is not JSON.
JSONParseRaises(saved) == saved.kind = "malformed"

\* loadFromLocalStorage(): when the item is truthy, each key of the parsed
\* object for which an element is found overwrites the mapping.  When the
\* parse throws, nothing has been assigned yet.
loadFromLocalStorage(params, saved) ==
    IF saved.kind = "json"
    THEN [k \in Keys |->
            IF k \in ParsedKeys(saved) /\ HasElement(k)
            THEN ParsedValue(saved, k) ELSE params[k]]
    ELSE params

\* The window 'load' listener of setupEventListeners.
loadOrder(params, query, saved) ==
    loadFromLocalStorage(loadFromURLParams(params, query), saved)

\* What the two load functions leave in the form controls (input.value = ...).
loadInputs(inputs, query, saved) ==
    [k \in ControlKeys |->
        IF saved.kind = "json" /\ k \in ParsedKeys(saved) THEN ParsedValue(saved, k)
        ELSE IF query[k] # Undefined THEN query[k]
        ELSE inputs[k]]

\* PerformanceMetrics.updateMetrics() recording what it computed as a sample.
updateMetricsPush(data) == Append(data, 0)

\* PerformanceMetrics.updateMetrics(), which onParametersChanged and
\* onPageEnter of the performance page call: the buffer after it.  It
\* computes from the parameters and writes display elements only.
updateMetrics(data) == data

\* updateParameter(key, value)
updateParameter(key, value) ==
    LET params == [parameters EXCEPT ![key] = value]
        n == notifySubscribers(subscribers, params, key, value, parameters[key])
        invoked == Cardinality({i \in 1..Len(n.calls) : n.calls[i].mode = "*"})
    IN  /\ parameters' = handlersLeave(subscribers, params, invoked)
        /\ log' = n.calls
        /\ opened' = NotOpened
        /\ observed' = <<>>
        /\ IF n.raised
           THEN UNCHANGED <<durable, urlQuery>>
           ELSE /\ durable' = Stringify(params)
                /\ urlQuery' = updateURLParams(params, urlQuery)
        /\ performanceData' =
              IF \E i \in 1..Len(n.calls) : n.calls[i].cb = "performance"
              THEN updateMetrics(performanceData) ELSE performanceData
        /\ lastOp' = Op("updateParameter", key, value, n.raised)
        /\ UNCHANGED <<subscribers, loaded>>

\* A direct call of the store's mutation entry point.
callUpdateParameter(key, value) ==
    /\ updateParameter(key, value)
    /\ UNCHANGED <<inputValue, pageVars, metricsInterval, liveTimers, nextTimerId,
                   clock, leaked, chartLine>>

\* The 'input' listener initializeParameters puts on each form control.
inputEvent(key, value) ==
    /\ key \in ControlKeys
    /\ inputValue' = [inputValue EXCEPT ![key] = value]
    /\ updateParameter(key, value)
    /\ UNCHANGED <<pageVars, metricsInterval, liveTimers, nextTimerId, clock,
                   leaked, chartLine>>

\* The window 'beforeunload' listener.
beforeunload ==
    /\ durable' = Stringify(parameters)
    /\ lastOp' = Op("beforeunload", Undefined, Undefined, FALSE)
    /\ log' = <<>>
    /\ opened' = NotOpened
    /\ observed' = <<>>
    /\ UNCHANGED <<parameters, subscribers, urlQuery, inputValue, loaded,
                   pageVars, timerVars>>

\* The window 'load' listener.
load ==
    /\ ~loaded
    /\ loaded' = TRUE
    /\ parameters' = loadOrder(parameters, urlQuery, durable)
    /\ inputValue' = loadInputs(inputValue, urlQuery, durable)
    /\ lastOp' = Op("load", Undefined,
                    IF lastOp.op = "construct" THEN "fresh" ELSE "late",
                    JSONParseRaises(durable))
    /\ log' = <<>>
    /\ opened' = NotOpened
    /\ observed' = <<>>
    /\ UNCHANGED <<subscribers, durable, urlQuery, pageVars, timerVars>>

\* Number of callbacks in the registry.
SubscriptionCount ==
    Len(subscribers["num-satellites"]) + Len(subscribers["frequency"])
    + Len(subscribers["overview"]) + Len(subscribers["detail-type"])
    + Len(subscribers["*"])

\* subscribe(key, callback)
subscribe(key, callback) ==
    /\ SubscriptionCount < Len(RegisteredPages) + MaxSubscriptions
    /\ subscribers' = [subscribers EXCEPT ![key] = Append(@, callback)]
    /\ lastOp' = Op("subscribe", key, callback, FALSE)
    /\ log' = <<>>
    /\ opened' = NotOpened
    /\ observed' = <<>>
    /\ UNCHANGED <<parameters, durable, urlQuery, inputValue, loaded,
                   pageVars, timerVars>>

---------------------------------------------------------------------------
(* Snapshots and the detail pages opened from them.                        *)

\* new URLSearchParams(object): one pair per own property of the object, in
\* the object's key order, empty values included.
URLSearchParams(obj) ==
    [k \in DetailKeys |-> IF k \in DOMAIN obj THEN obj[k] ELSE Undefined]

\* The global openDetailPage without its 'detail-type' assignment.
detailQueryNoType(params, type, id) == URLSearchParams(getAllParameters(params))

\* The query the global openDetailPage(type, id) builds: the snapshot with
\* 'detail-type' assigned, and 'detail-id' assigned when id is truthy.
detailQuery(params, type, id) ==
    LET snapshot == URLSearchParams(getAllParameters(params))
        typed == [snapshot EXCEPT !["detail-type"] = type]
    IN  URLSearchParams(IF Truthy(id) THEN [typed EXCEPT !["detail-id"] = id]
                        ELSE typed)

\* The global function openDetailPage(type, id).
openDetailPage(type, id) ==
    /\ opened' = [path |-> DetailPath, query |-> detailQuery(parameters, type, id)]
    /\ parameters' = snapshotWrite(parameters, "detail-type", type)
    /\ lastOp' = Op("openDetailPage", type, id, FALSE)
    /\ log' = <<>>
    /\ observed' = <<>>
    /\ UNCHANGED <<subscribers, durable, urlQuery, inputValue, loaded,
                   pageVars, timerVars>>

\* A click on a navigation button that carries data-url:
\* PageManager.openDetailPage(url).
navOpenDetailPage(url) ==
    /\ opened' = [path |-> url, query |-> URLSearchParams(getAllParameters(parameters))]
    /\ lastOp' = Op("navOpenDetailPage", url, Undefined, FALSE)
    /\ log' = <<>>
    /\ observed' = <<>>
    /\ UNCHANGED <<storeVars, pageVars, timerVars>>

\* A caller of getAllParameters() writing to the object it got.
mutateSnapshot(k, v) ==
    /\ parameters' = snapshotWrite(parameters, k, v)
    /\ lastOp' = Op("mutateSnapshot", k, v, FALSE)
    /\ log' = <<>>
    /\ opened' = NotOpened
    /\ observed' = <<>>
    /\ UNCHANGED <<subscribers, durable, urlQuery, inputValue, loaded,
                   pageVars, timerVars>>

---------------------------------------------------------------------------
(* Construction: the DOMContentLoaded listener.                            *)

\* new ParameterManager(): initializeParameters scans the form controls.
initializeParameters ==
    [k \in Keys |-> IF k \in ControlKeys THEN DefaultValue(k) ELSE Undefined]

\* new PageManager(): each page's BasePage constructor subscribes to "*".
initializePages ==
    [k \in Keys |-> IF k = "*" THEN RegisteredPages ELSE <<>>]

Constructed(query, navs, conts) ==
    /\ parameters = initializeParameters
    /\ subscribers = initializePages
    /\ urlQuery = query
    /\ inputValue = [k \in ControlKeys |-> DefaultValue(k)]
    /\ loaded = FALSE
    /\ currentPage = "overview"
    /\ navButtons = navs
    /\ containers = conts
    /\ navActive = {"overview"}
    /\ pageActive = {"overview"}
    /\ entered = {}
    /\ metricsInterval = 0
    /\ liveTimers = {}
    /\ nextTimerId = 1
    /\ performanceData = <<>>
    /\ clock = 0
    /\ leaked = FALSE
    /\ lastOp = NoOp
    /\ log = <<>>
    /\ opened = NotOpened
    /\ observed = <<>>
    /\ chartLine = <<>>

\* A fresh document at the same origin: the script is constructed anew, the
\* timers of the old document are gone, the durable slot is what it was.
DOMContentLoaded(query) ==
    /\ parameters' = initializeParameters
    /\ subscribers' = initializePages
    /\ urlQuery' = query
    /\ inputValue' = [k \in ControlKeys |-> DefaultValue(k)]
    /\ loaded' = FALSE
    /\ currentPage' = "overview"
    /\ navActive' = {"overview"}
    /\ pageActive' = {"overview"}
    /\ entered' = {}
    /\ metricsInterval' = 0
    /\ liveTimers' = {}
    /\ nextTimerId' = 1
    /\ performanceData' = <<>>
    /\ clock' = 0
    /\ leaked' = FALSE
    /\ chartLine' = <<>>
    /\ lastOp' = NoOp
    /\ log' = <<>>
    /\ opened' = NotOpened
    /\ observed' = <<>>
    /\ UNCHANGED <<durable, navButtons, containers>>

---------------------------------------------------------------------------
(* The store on its own: input events, direct calls, unload, fresh loads.  *)

EmptyQuery == [k \in Keys |-> Undefined]

\* First visit, no query string, the markup holding the registered pages only.
InitApp ==
    /\ durable = NoItem
    /\ Constructed(EmptyQuery, Registered, Registered)

InitStore ==
    /\ durable \in {NoItem, Malformed}
    /\ \E q \in QueryStrings : Constructed(q, Registered, Registered)

NextStore ==
    \/ \E k \in ControlKeys, v \in Values : inputEvent(k, v)
    \/ callUpdateParameter("overview", "9")
    \/ beforeunload
    \/ load
    \/ \E q \in QueryStrings : DOMContentLoaded(q)

SpecStore == InitStore /\ [][NextStore]_vars

---------------------------------------------------------------------------
(* The registry: callbacks subscribed besides the pages', then mutations.  *)

NextNotify ==
    \/ \E k \in {"frequency", "*"}, cb \in TestCallbacks : subscribe(k, cb)
    \/ \E k \in {"frequency", "num-satellites", "*"}, v \in {"2", "9"} :
          callUpdateParameter(k, v)

SpecNotify == InitApp /\ [][NextNotify]_vars

---------------------------------------------------------------------------
(* PerformanceMetrics: the periodic timer and the rolling buffer.          *)

\* drawPerformanceChart() taking the samples off the buffer as it plots them.
drawPerformanceChartShift(data) == <<>>

\* stopMetricsUpdate() without the clearInterval call.
stopMetricsUpdateNoClear(live, interval) == live

\* stopMetricsUpdate(): clearInterval(metricsInterval) when it is truthy;
\* the field keeps the id.
stopMetricsUpdate(live, interval) ==
    IF interval # 0 THEN live \ {interval} ELSE live

\* startMetricsUpdate(): metricsInterval = setInterval(...).
startMetricsUpdate(live, id) == live \cup {id}

\* updateRealTimeMetrics() with pop() in place of shift(): the newest sample
\* is the one removed.
updateRealTimeMetricsPop(data, sample) ==
    LET pushed == Append(data, sample) IN
    IF Len(pushed) > MaxDataPoints THEN SubSeq(pushed, 1, Len(pushed) - 1) ELSE pushed

\* updateRealTimeMetrics(): push the sample, shift when longer than
\* maxDataPoints.
updateRealTimeMetrics(data, sample) ==
    LET pushed == Append(data, sample) IN
    IF Len(pushed) > MaxDataPoints THEN Tail(pushed) ELSE pushed

\* drawPerformanceChart(): the buffer after the call.  The function reads
\* performanceData (length, forEach) and never assigns to it.
drawPerformanceChart(data) == data

\* drawPerformanceChart(): the samples the SNR line joins.  The canvas is
\* cleared first; with fewer than two samples the function returns there.
chartStroke(data) == IF Len(data) < 2 THEN <<>> ELSE data

\* onPageExit as BasePage defines it, the performance page not overriding it.
onPageExitBase(page, live, interval) == live

\* The timers onPageExit of a page leaves live: only the performance page
\* overrides BasePage.onPageExit.
onPageExit(page, live, interval) ==
    IF page = "performance" THEN stopMetricsUpdate(live, interval) ELSE live

\* Whether onPageEnter of a page raises: CoverageAnalysis.onPageEnter calls
\* drawCoverageMap.
onPageEnterRaises(page, params) ==
    page = "coverage" /\ drawCoverageMapRaises(params)

Hook(page, which) == Call(page, which, Undefined, Undefined, Undefined, NoSnapshot)

\* One firing of the interval callback of startMetricsUpdate.
timerTick(bound) ==
    /\ liveTimers # {}
    /\ clock < bound
    /\ clock' = clock + 1
    /\ performanceData' =
          drawPerformanceChart(updateRealTimeMetrics(performanceData, clock + 1))
    /\ chartLine' = chartStroke(updateRealTimeMetrics(performanceData, clock + 1))
    /\ lastOp' = Op("tick", Undefined, Undefined, FALSE)
    /\ log' = <<>>
    /\ opened' = NotOpened
    /\ observed' = <<>>
    /\ UNCHANGED <<storeVars, pageVars, metricsInterval, liveTimers, nextTimerId, leaked>>

---------------------------------------------------------------------------
(* PageManager.switchPage.                                                 *)

\* What a hook sees of the coordinator and the document while it runs.
Seen(which, p, cur, nav, act) ==
    [hook |-> which, page |-> p, currentPage |-> cur, navActive |-> nav,
     pageActive |-> act]

\* The statements of switchPage in the order the specification lists them:
\* deactivate, exit hook, activate, enter hook, assign currentPage.
switchPageStepsAsListed ==
    <<"navOff", "pageOff", "exit", "navOn", "pageOn", "enter", "assign">>

\* The statements of switchPage in source order: 'active' removed from every
\* button (169-171) and added to the new one (172), removed from every
\* container (174-176) and added to the new one (177), the exit hook of
\* pages[currentPage] (179-181), currentPage = pageName (183), the enter
\* hook of pages[pageName] (185-187).
switchPageSteps ==
    <<"navOff", "navOn", "pageOff", "pageOn", "exit", "assign", "enter">>

\* One statement of switchPage(new) applied to the coordinator's and the
\* document's state, st.seen collecting what each hook sees.
switchPageStep(step, st, new) ==
    CASE step = "navOff"  -> [st EXCEPT !.nav = {}]
      [] step = "navOn"   -> [st EXCEPT !.nav = {new}]
      [] step = "pageOff" -> [st EXCEPT !.act = {}]
      [] step = "pageOn"  -> [st EXCEPT !.act = {new}]
      [] step = "assign"  -> [st EXCEPT !.cur = new]
      [] step = "exit"    ->
            IF st.cur \in Registered
            THEN [st EXCEPT !.seen =
                     Append(@, Seen("onPageExit", st.cur, st.cur, st.nav, st.act))]
            ELSE st
      [] step = "enter"   ->
            IF new \in Registered
            THEN [st EXCEPT !.seen =
                     Append(@, Seen("onPageEnter", new, st.cur, st.nav, st.act))]
            ELSE st

RECURSIVE switchPageRun(_, _, _)
switchPageRun(steps, st, new) ==
    IF steps = <<>> THEN st
    ELSE switchPageRun(Tail(steps), switchPageStep(Head(steps), st, new), new)

\* What the hooks of a switchPage that found both elements see.
switchPageObserved(cur, new) ==
    switchPageRun(switchPageSteps,
                  [nav |-> navActive, act |-> pageActive, cur |-> cur, seen |-> <<>>],
                  new).seen

\* switchPage entering the new page before it exits the old one.
switchPageHooksEnterFirst(cur, new) ==
    (IF new \in Registered THEN <<Hook(new, "onPageEnter")>> ELSE <<>>)
    \o (IF cur \in Registered THEN <<Hook(cur, "onPageExit")>> ELSE <<>>)

\* The hooks switchPage invokes once both DOM lookups succeeded: the exit
\* hook of the current page when it is registered, then, with currentPage
\* already reassigned, the enter hook of the new page when it is registered.
switchPageHooks(cur, new) ==
    (IF cur \in Registered THEN <<Hook(cur, "onPageExit")>> ELSE <<>>)
    \o (IF new \in Registered THEN <<Hook(new, "onPageEnter")>> ELSE <<>>)

switchPage(pageName) ==
    LET exits  == currentPage \in Registered
        enters == pageName \in Registered
        starts == enters /\ pageName = "performance"
        afterExit == IF exits
                     THEN onPageExit(currentPage, liveTimers, metricsInterval)
                     ELSE liveTimers
    IN
    /\ starts => nextTimerId <= MaxTimerIds
    /\ IF pageName \notin navButtons
       THEN \* line 172: querySelector returns null, .classList raises
            /\ navActive' = {}
            /\ lastOp' = Op("switchPage", pageName, currentPage, TRUE)
            /\ log' = <<>>
            /\ opened' = NotOpened
            /\ observed' = <<>>
            /\ UNCHANGED <<currentPage, pageActive, entered, timerVars>>
       ELSE IF pageName \notin containers
       THEN \* line 177: getElementById returns null, .classList raises
            /\ navActive' = {pageName}
            /\ pageActive' = {}
            /\ lastOp' = Op("switchPage", pageName, currentPage, TRUE)
            /\ log' = <<>>
            /\ opened' = NotOpened
            /\ observed' = <<>>
            /\ UNCHANGED <<currentPage, entered, timerVars>>
       ELSE /\ navActive' = {pageName}
            /\ pageActive' = {pageName}
            /\ currentPage' = pageName
            /\ log' = switchPageHooks(currentPage, pageName)
            /\ opened' = NotOpened
            /\ observed' = switchPageObserved(currentPage, pageName)
            /\ entered' = (IF exits THEN entered \ {currentPage} ELSE entered)
                          \cup (IF enters THEN {pageName} ELSE {})
            /\ liveTimers' = IF starts THEN startMetricsUpdate(afterExit, nextTimerId)
                             ELSE afterExit
            /\ metricsInterval' = IF starts THEN nextTimerId ELSE metricsInterval
            /\ nextTimerId' = IF starts THEN nextTimerId + 1 ELSE nextTimerId
            /\ leaked' = (leaked \/ (starts /\ metricsInterval \in afterExit))
            /\ lastOp' = Op("switchPage", pageName, currentPage,
                            enters /\ onPageEnterRaises(pageName, parameters))
            /\ performanceData' =
                  IF starts THEN drawPerformanceChart(updateMetrics(performanceData))
                  ELSE performanceData
            /\ chartLine' = IF starts THEN chartStroke(updateMetrics(performanceData))
                            ELSE chartLine
            /\ UNCHANGED clock
    /\ UNCHANGED <<storeVars, navButtons, containers>>

---------------------------------------------------------------------------
(* The pages under navigation, parameter changes and timer ticks.          *)

InitPages ==
    /\ durable = NoItem
    /\ \E navs \in {Registered, Registered \cup {"monitoring"}},
          conts \in {Registered, Registered \cup {"monitoring"}} :
          Constructed(EmptyQuery, navs, conts)

NextPages ==
    \/ \E p \in PageNames : switchPage(p)
    \/ \E v \in {"2", "9"} : inputEvent("num-satellites", v)
    \/ timerTick(MaxPageTicks)
    \/ load

SpecPages == InitPages /\ [][NextPages]_vars

---------------------------------------------------------------------------
(* The performance page's hooks called directly, in any order.             *)

callOnPageEnter ==
    /\ nextTimerId <= MaxTimerIds
    /\ liveTimers' = startMetricsUpdate(liveTimers, nextTimerId)
    /\ metricsInterval' = nextTimerId
    /\ nextTimerId' = nextTimerId + 1
    /\ leaked' = (leaked \/ metricsInterval \in liveTimers)
    /\ entered' = entered \cup {"performance"}
    /\ lastOp' = Op("onPageEnter", "performance", Undefined, FALSE)
    /\ log' = <<Hook("performance", "onPageEnter")>>
    /\ opened' = NotOpened
    /\ observed' = <<>>
    /\ performanceData' = drawPerformanceChart(updateMetrics(performanceData))
    /\ chartLine' = chartStroke(updateMetrics(performanceData))
    /\ UNCHANGED <<storeVars, currentPage, navButtons, containers, navActive,
                   pageActive, clock>>

callOnPageExit ==
    /\ liveTimers' = onPageExit("performance", liveTimers, metricsInterval)
    /\ entered' = entered \ {"performance"}
    /\ lastOp' = Op("onPageExit", "performance",
                    IF lastOp.op = "onPageExit" THEN "again" ELSE "first", FALSE)
    /\ log' = <<Hook("performance", "onPageExit")>>
    /\ opened' = NotOpened
    /\ observed' = <<>>
    /\ UNCHANGED <<storeVars, currentPage, navButtons, containers, navActive,
                   pageActive, metricsInterval, nextTimerId, performanceData,
                   clock, leaked, chartLine>>


NextHooks ==
    \/ callOnPageEnter
    \/ callOnPageExit
    \/ timerTick(MaxTicks)

SpecHooks == InitApp /\ [][NextHooks]_vars

---------------------------------------------------------------------------
(* A later visit: the durable slot holds what an earlier session saved,    *)
(* and events may be handled between construction and the load event.      *)

\* The mapping an earlier session left in the slot: its last mutation was
\* updateParameter('frequency', '9').
EarlierSession == [initializeParameters EXCEPT !["frequency"] = "9"]

InitEarly ==
    /\ durable = Stringify(EarlierSession)
    /\ \E q \in {r \in QueryStrings : r["frequency"] = Undefined} :
          Constructed(q, Registered, Registered)

NextEarly ==
    \/ \E v \in Values : inputEvent("num-satellites", v)
    \/ beforeunload
    \/ load
    \/ loaded /\ \E v \in Values : inputEvent("frequency", v)

SpecEarly == InitEarly /\ [][NextEarly]_vars

---------------------------------------------------------------------------
(* Every operation of the store on a later visit: mutations from controls  *)
(* and direct calls, subscriptions, saves and the restoration.             *)

\* The later visit is opened with no query string or at ?num-satellites=9.
InitFrame ==
    /\ durable = Stringify(EarlierSession)
    /\ \E q \in {r \in QueryStrings :
                    /\ r["num-satellites"] \in {Undefined, "9"}
                    /\ \A k \in Keys \ {"num-satellites"} : r[k] = Undefined} :
          Constructed(q, Registered, Registered)

NextFrame ==
    \/ \E k \in ControlKeys, v \in Values : inputEvent(k, v)
    \/ callUpdateParameter("overview", "9")
    \/ subscribe("*", "cb2")
    \/ beforeunload
    \/ load

SpecFrame == InitFrame /\ [][NextFrame]_vars

---------------------------------------------------------------------------
(* Snapshots handed out, written to by their holders, and sent to detail   *)
(* pages, between parameter changes and page switches.                     *)

NextDetail ==
    \/ \E k \in {"frequency", "detail-type"}, v \in Values : callUpdateParameter(k, v)
    \/ \E t \in DetailTypes, id \in DetailIds : openDetailPage(t, id)
    \/ \E u \in DetailUrls : navOpenDetailPage(u)
    \/ \E k \in {"frequency", "detail-type"}, v \in {"9", Undefined} : mutateSnapshot(k, v)
    \/ \E p \in {"overview", "trajectory"} : switchPage(p)

SpecDetail == InitApp /\ [][NextDetail]_vars

---------------------------------------------------------------------------
(* Properties of the store.                                                *)

\* C1 (query precedence): once a fresh document has run its load handler (the
\* first handler it runs), every form-bound key
\* that the durable slot holds with value A and the query string holds with a
\* different value B has the query string's value B in the mapping.
C1_QueryPrecedence ==
    (lastOp.op = "load" /\ lastOp.value = "fresh") =>
        \A k \in ControlKeys :
            (/\ durable.kind = "json"
             /\ k \in ParsedKeys(durable)
             /\ urlQuery[k] # Undefined
             /\ ParsedValue(durable, k) # urlQuery[k])
            => parameters[k] = urlQuery[k]

\* C2 (round trip): when a fresh document with an empty query string runs its
\* load handler first, against a durable slot holding the serialization of a
\* mapping P, every form-bound key has its value of P and no key of P without
\* a form control is in the mapping.
C2_RoundTrip ==
    (/\ lastOp.op = "load"
     /\ lastOp.value = "fresh"
     /\ urlQuery = EmptyQuery
     /\ durable.kind = "json")
    => \A k \in Keys :
          IF k \in ControlKeys
          THEN parameters[k] = ParsedValue(durable, k)
          ELSE parameters[k] = Undefined

\* The callbacks one updateParameter(k, v) is to invoke: those subscribed to k
\* in subscription order, then those subscribed to "*" in subscription order,
\* each once.
ExpectedCalls(k) ==
    LET specific == IF k = "*" THEN <<>>
                    ELSE [i \in 1..Len(subscribers[k]) |-> <<subscribers[k][i], "key">>]
        wildcard == [i \in 1..Len(subscribers["*"]) |-> <<subscribers["*"][i], "*">>]
    IN  specific \o wildcard

\* C3 (notification ordering): one updateParameter(k, v) invokes every
\* callback subscribed to k exactly once in subscription order, then every
\* callback subscribed to "*" exactly once in subscription order.
C3_NotificationOrder ==
    lastOp.op = "updateParameter" =>
        /\ Len(log) = Len(ExpectedCalls(lastOp.key))
        /\ \A i \in 1..Len(log) :
              /\ log[i].cb = ExpectedCalls(lastOp.key)[i][1]
              /\ lastOp.key # "*" => log[i].mode = ExpectedCalls(lastOp.key)[i][2]

\* C10 (mutation): updateParameter(k, v), for a key with or without a form
\* control, raises no error, makes getParameter(k) return v, notifies the
\* subscribers of k and of "*", and leaves the durable slot holding the
\* serialization of the full mapping.
C10_UpdateParameter ==
    lastOp.op = "updateParameter" =>
        /\ ~lastOp.raised
        /\ parameters[lastOp.key] = lastOp.value
        /\ \A i \in 1..Len(subscribers["*"]) :
              \E j \in 1..Len(log) : log[j].cb = subscribers["*"][i] /\ log[j].mode = "*"
        /\ durable = Stringify(parameters)

---------------------------------------------------------------------------
(* Properties of the page coordinator.                                     *)

\* C4 (lifecycle exclusivity): switchPage(B) with A current, both registered,
\* invokes A's exit hook once and then B's enter hook once, and nothing else,
\* whatever parameter changes happened while A was current.
C4_ExitThenEnter ==
    (/\ lastOp.op = "switchPage"
     /\ lastOp.key \in Registered
     /\ lastOp.value \in Registered)
    => /\ log = <<Hook(lastOp.value, "onPageExit"), Hook(lastOp.key, "onPageEnter")>>
       /\ currentPage = lastOp.key

\* A switch from the performance page to the trajectory page after the
\* satellite count was changed.
C4_Witness ==
    /\ lastOp = Op("switchPage", "trajectory", "performance", FALSE)
    /\ parameters["num-satellites"] = "9"
    /\ log = <<Hook("performance", "onPageExit"), Hook("trajectory", "onPageEnter")>>

\* C5 (one active, one entered): in every state from construction on, exactly
\* one page container is marked active and exactly one page is entered.
C5_OneActiveOneEntered ==
    /\ Cardinality(pageActive) = 1
    /\ Cardinality(entered) = 1

\* C6 (unregistered name): switchPage with a name no page is registered under
\* raises nothing, changes no active marker, keeps currentPage and calls no hook.
C6_UnregisteredIsNoOp ==
    [][(lastOp'.op = "switchPage" /\ lastOp'.key \notin Registered)
        => /\ ~lastOp'.raised
           /\ navActive' = navActive
           /\ pageActive' = pageActive
           /\ currentPage' = currentPage
           /\ log' = <<>>]_vars

\* C7 (timer lifecycle): at most one periodic timer is live, and one is live
\* only while the performance page is the current page.
C7_TimerLifecycle ==
    /\ Cardinality(liveTimers) <= 1
    /\ liveTimers # {} => currentPage = "performance"
    /\ liveTimers \subseteq {metricsInterval}

\* The performance page was left after its timer had fired, and entered a
\* second time before.
C7_Witness ==
    /\ lastOp.op = "switchPage"
    /\ lastOp.value = "performance"
    /\ currentPage = "coverage"
    /\ metricsInterval = 2
    /\ clock >= 1
    /\ liveTimers = {}

---------------------------------------------------------------------------
(* Properties of the performance page's hooks.                             *)

\* C8 (idempotent cancellation): onPageExit of the performance page raises
\* nothing and leaves no timer live, called before any onPageEnter, after an
\* onPageEnter, or again after itself.
C8_ExitIdempotent ==
    lastOp.op = "onPageExit" =>
        /\ ~lastOp.raised
        /\ ~leaked => liveTimers = {}

\* onPageExit called a second time in a row after the page had been entered.
C8_Witness ==
    /\ lastOp = Op("onPageExit", "performance", "again", FALSE)
    /\ metricsInterval # 0
    /\ ~leaked
    /\ liveTimers = {}

\* C9 (rolling buffer): after a tick the buffer holds at most MaxDataPoints
\* samples; a tick on a full buffer drops the oldest sample and appends the
\* new one last, a tick on a shorter buffer only appends.
C9_RollingBuffer ==
    [][lastOp'.op = "tick"
        => /\ Len(performanceData') <= MaxDataPoints
           /\ performanceData'[Len(performanceData')] = clock'
           /\ IF Len(performanceData) = MaxDataPoints
              THEN /\ Len(performanceData') = MaxDataPoints
                   /\ \A i \in 1..(MaxDataPoints - 1) :
                         performanceData'[i] = performanceData[i + 1]
              ELSE /\ Len(performanceData') = Len(performanceData) + 1
                   /\ \A i \in 1..Len(performanceData) :
                         performanceData'[i] = performanceData[i]]_vars

\* The tick after the buffer filled: the first sample is gone, the second is
\* now the oldest.
C9_Witness ==
    /\ lastOp.op = "tick"
    /\ clock = MaxDataPoints + 1
    /\ Len(performanceData) = MaxDataPoints
    /\ performanceData[1] = 2
    /\ performanceData[MaxDataPoints] = MaxDataPoints + 1

---------------------------------------------------------------------------
\* C11: writing to the object getAllParameters() returned, as a caller may do
\* and as the global openDetailPage(type, id) does with 'detail-type', leaves
\* the store's mapping, and so every later getParameter and
\* getAllParameters result, as it was.
C11_SnapshotIsolation ==
    [][lastOp'.op \in {"mutateSnapshot", "openDetailPage"}
         => /\ parameters' = parameters
            /\ getAllParameters(parameters') = getAllParameters(parameters)]_vars

\* The global openDetailPage wrote its type into a snapshot whose
\* 'detail-type' the store holds at another value.
C11_Witness ==
    /\ lastOp.op = "openDetailPage"
    /\ parameters["detail-type"] = "9"
    /\ opened.query["detail-type"] = "satellite"

\* C16, as amended: the global openDetailPage(type, id) opens DetailPath
\* with every key of the snapshot other than 'detail-type' at its value,
\* 'detail-type' = type, and 'detail-id' = id exactly when id is truthy; the
\* navigation-button variant opens its url with exactly the snapshot, and
\* leaves currentPage, the entered pages and the timers alone and calls no
\* hook or callback.
C16_DetailPages ==
    [][/\ lastOp'.op = "openDetailPage"
          => /\ opened'.path = DetailPath
             /\ \A k \in Keys \ {"detail-type"} : opened'.query[k] = parameters[k]
             /\ opened'.query["detail-type"] = lastOp'.key
             /\ opened'.query["detail-id"] =
                   (IF Truthy(lastOp'.value) THEN lastOp'.value ELSE Undefined)
       /\ lastOp'.op = "navOpenDetailPage"
          => /\ opened'.path = lastOp'.key
             /\ \A k \in Keys : opened'.query[k] = parameters[k]
             /\ opened'.query["detail-id"] = Undefined
             /\ currentPage' = currentPage
             /\ entered' = entered
             /\ liveTimers' = liveTimers
             /\ log' = <<>>
             /\ observed' = <<>>]_vars

\* From a page other than the initial one, the global openDetailPage was
\* called with an empty id while the store held a 'detail-type' of its own.
C16_Witness ==
    /\ lastOp.op = "openDetailPage"
    /\ lastOp.value = ""
    /\ opened.query["detail-id"] = Undefined
    /\ parameters["detail-type"] = "9"
    /\ opened.query["frequency"] = "2"
    /\ currentPage = "trajectory"

\* C16 as stated: the query of the global openDetailPage carries every key of
\* the snapshot at its value, 'detail-type' = type, and 'detail-id' = id
\* exactly when an id was passed.
C16_AsStated ==
    [][lastOp'.op = "openDetailPage"
          => /\ opened'.path = DetailPath
             /\ \A k \in Keys : parameters[k] # Undefined
                                   => opened'.query[k] = parameters[k]
             /\ opened'.query["detail-type"] = lastOp'.key
             /\ opened'.query["detail-id"] = lastOp'.value]_vars

\* The query string mirrors the mapping: a key of the mapping is in the query
\* with the mapping's value when that value is non-empty, and is not in the
\* query when it is empty.
URLMirrorsParameters ==
    \A k \in Keys :
        parameters[k] # Undefined
           => urlQuery[k] = (IF parameters[k] # "" THEN parameters[k] ELSE Undefined)

\* C12: after every updateParameter call the query string mirrors the
\* mapping.
C12_URLAfterUpdate ==
    lastOp.op = "updateParameter" => URLMirrorsParameters

\* C13: in every state after the load handler has run, from the state right
\* after restoration on, the query string mirrors the mapping.
C13_URLAfterRestore ==
    loaded => URLMirrorsParameters

\* C14: with text that is not JSON in the durable slot the load handler
\* raises nothing, and leaves the mapping as the same load with an empty slot
\* would.
C14_MalformedIsAbsent ==
    (lastOp.op = "load" /\ durable = Malformed)
       => /\ ~lastOp.raised
          /\ lastOp.value = "fresh"
                => parameters = loadOrder(initializeParameters, urlQuery, NoItem)

\* C17, as amended: a switchPage from a registered page A to a registered
\* page B first moves the 'active' markers to B, then runs A's exit hook,
\* then records B as currentPage, then runs B's enter hook: A's exit hook
\* sees B already active and currentPage still A, B's enter hook sees
\* currentPage already B.
C17_StepOrder ==
    (lastOp.op = "switchPage" /\ lastOp.key \in Registered /\ lastOp.value \in Registered)
       => /\ observed =
                <<Seen("onPageExit", lastOp.value, lastOp.value,
                       {lastOp.key}, {lastOp.key}),
                  Seen("onPageEnter", lastOp.key, lastOp.key,
                       {lastOp.key}, {lastOp.key})>>
          /\ currentPage = lastOp.key

\* The performance page was switched to from another registered page.
C17_Witness ==
    /\ lastOp.op = "switchPage"
    /\ lastOp.key = "performance"
    /\ lastOp.value = "coverage"
    /\ Len(observed) = 2

\* C17 as stated: A's exit hook runs before B is visually activated, and
\* currentPage still names A while B's enter hook runs.
C17_AsStated ==
    (/\ lastOp.op = "switchPage"
     /\ lastOp.key \in Registered
     /\ lastOp.value \in Registered
     /\ lastOp.key # lastOp.value)
       => /\ Len(observed) = 2
          /\ lastOp.key \notin observed[1].pageActive
          /\ observed[2].currentPage = lastOp.value
          /\ currentPage = lastOp.key

\* C15: an updateParameter(k, v) call invokes the onParametersChanged of
\* every registered page exactly once, with a snapshot in which k maps to v,
\* whichever page is current.
C15_EveryPageNotified ==
    lastOp.op = "updateParameter"
       => \A page \in Registered :
             Cardinality({i \in 1..Len(log) :
                             /\ log[i].cb = page
                             /\ log[i].mode = "*"
                             /\ log[i].snapshot[lastOp.key] = lastOp.value}) = 1

\* C18: in an updateParameter(k, v) call each handler subscribed to k is
\* handed (v, the value the store held for k before the call, k); each "*"
\* handler is handed (a snapshot in which k maps to v, k), the snapshot being
\* the store's mapping whatever earlier handlers wrote to theirs; and the
\* store's mapping after the call differs from the one before in k only.
C18_HandlerArguments ==
    [][lastOp'.op = "updateParameter"
         => /\ \A i \in 1..Len(log') :
                  /\ log'[i].key = lastOp'.key
                  /\ log'[i].mode = "key"
                        => /\ log'[i].new = lastOp'.value
                           /\ log'[i].old = parameters[lastOp'.key]
                  /\ log'[i].mode = "*"
                        => /\ log'[i].snapshot[lastOp'.key] = lastOp'.value
                           /\ log'[i].snapshot =
                                 [parameters EXCEPT ![lastOp'.key] = lastOp'.value]
            /\ parameters' = [parameters EXCEPT ![lastOp'.key] = lastOp'.value]]_vars

\* A handler that writes to its snapshot ran before another "*" handler,
\* after a handler subscribed to the key was handed a previous value.
C18_Witness ==
    /\ lastOp.op = "updateParameter"
    /\ \E i, j, h \in 1..Len(log) :
          /\ h < i /\ i < j
          /\ log[h].mode = "key" /\ log[h].old = "2" /\ log[h].new = "9"
          /\ log[i].mode = "*" /\ Scribbles(log[i].cb)
          /\ log[j].mode = "*"

\* C19: a redraw of the performance chart, at page entry or at the end of a
\* tick, raises nothing and leaves the buffer as it finds it, whatever its
\* length; with fewer than two samples buffered it draws no line.
C19_RedrawLeavesBuffer ==
    [][/\ lastOp'.op = "onPageEnter"
          => /\ performanceData' = performanceData
             /\ ~lastOp'.raised
             /\ Len(performanceData) < 2 => chartLine' = <<>>
       /\ lastOp'.op = "tick"
          => /\ performanceData' = updateRealTimeMetrics(performanceData, clock')
             /\ ~lastOp'.raised
             /\ Len(performanceData') < 2 => chartLine' = <<>>]_vars

\* The chart was redrawn at page entry with exactly one sample buffered.
C19_Witness ==
    /\ lastOp.op = "onPageEnter"
    /\ Len(performanceData) = 1
    /\ chartLine = <<>>

\* C20: whatever was handled between construction and the load event (an
\* input event on another control, a beforeunload save), the load handler
\* restores the frequency the earlier session persisted.
C20_EarlyEventKeepsPersisted ==
    lastOp.op = "load" => parameters["frequency"] = EarlierSession["frequency"]

\* C21: when the load handler changes the value of a key, every registered
\* page's onParametersChanged is invoked with a snapshot that holds the
\* restored value of each key it changed.
C21_RestorationBroadcast ==
    [][(lastOp'.op = "load" /\ parameters' # parameters)
          => \A page \in Registered :
                \E i \in 1..Len(log') :
                   /\ log'[i].cb = page
                   /\ log'[i].mode = "*"
                   /\ \A k \in Keys :
                         parameters'[k] # parameters[k]
                            => log'[i].snapshot[k] = parameters'[k]]_vars

\* C22: updateParameter(k, v) leaves the value of every key other than k as
\* it was; no operation of the store removes a key from the mapping; and
\* every key scanned from a form control at construction is in the mapping
\* in every state.
C22_MutationFrame ==
    [][/\ lastOp'.op = "updateParameter"
          => \A j \in Keys \ {lastOp'.key} : parameters'[j] = parameters[j]
       /\ \A k \in Keys : parameters[k] # Undefined => parameters'[k] # Undefined
       /\ \A k \in ControlKeys :
             parameters[k] # Undefined /\ parameters'[k] # Undefined]_vars

\* After the restoration, with a handler that writes to its snapshot
\* subscribed, a mutation raised, the restored key still in the mapping.
C22_Witness ==
    /\ lastOp.op = "updateParameter"
    /\ lastOp.key = "num-satellites"
    /\ lastOp.raised
    /\ loaded
    /\ parameters["frequency"] = "9"
    /\ parameters["overview"] = "9"
    /\ Len(subscribers["*"]) > Len(RegisteredPages)

\* C23: the buffer of the performance page changes in timer ticks only, and
\* only while performance is the current page: switchPage (with the exit and
\* enter hooks and the redraw at entry), updateParameter and the load handler
\* leave it as it is.
C23_BufferOnlyByTicks ==
    [][/\ performanceData' # performanceData
          => /\ lastOp'.op = "tick"
             /\ currentPage = "performance"
             /\ currentPage' = "performance"
       /\ lastOp'.op \in {"switchPage", "updateParameter", "load"}
          => performanceData' = performanceData]_vars

\* The performance page is entered again from another registered page with
\* the samples of its earlier stay still buffered.
C23_Witness ==
    /\ lastOp.op = "switchPage"
    /\ lastOp.key = "performance"
    /\ lastOp.value = "coverage"
    /\ ~lastOp.raised
    /\ Len(performanceData) = 2
    /\ chartLine = performanceData

============================================================================
